---- MODULE Spec2Model ----
(***************************************************************************)
(* Template-method financial report pipeline of src/cli/01_templateMethod.ts: *)
(* FinancialReportGenerator.generate and its PL / BS / CF subclasses.       *)
(*                                                                         *)
(* Representation.                                                         *)
(*  - A FinancialData item is a record [accountId, accountName, value,     *)
(*    period]; a FinancialData[] is a sequence of such records.            *)
(*  - value is a number counted in units of 0.01, so that the tolerance    *)
(*    0.01 of the validate methods is the integer 1 and Yen(n) is n whole  *)
(*    units.  Arithmetic is exact.                                         *)
(*  - The Japanese account names, prefixes, report types and messages of   *)
(*    the source are written as ASCII strings; accountIds are the source's.*)
(*  - A thrown exception is a record [name, msg, args]: name is the name   *)
(*    of its class (Error.prototype.name), msg identifies the message      *)
(*    template and args holds the numbers interpolated into it.            *)
(*                                                                         *)
(* Specifications.                                                         *)
(*  - Spec: the program as written.  Generator objects of the three        *)
(*    subclasses run generate(period) with their built-in loadData.  The   *)
(*    stages of different runs may interleave, which includes the          *)
(*    sequential calls of run().                                           *)
(*  - SpecSrc: one generate() whose loadData returns what a data source    *)
(*    holds for the period; the built-in lists are among the possible      *)
(*    contents.  Its behaviours include failing runs.                      *)
(*  - SpecFn: calculate, validate and format called directly on a list.    *)
(*  - SpecLive: two generate() calls of the program under weak fairness of *)
(*    the steps of a call that has been entered.                           *)
(*                                                                         *)
(* Two further examples of the repository are modelled in sections of      *)
(* their own, each with its own variables and specification:               *)
(*  - SpecFactory: the factory method example of src/unnamed/part_004,     *)
(*    create, generate and export on reports of the four formats.          *)
(*  - SpecMaster: the singleton GlobalAccountMaster of                     *)
(*    src/cli/02_singleton_fs.ts, getInstance, initialize and the lookups. *)
(***************************************************************************)
EXTENDS Integers, Sequences, FiniteSets, TLC

VARIABLES
    pc,             \* per run: "idle" | "running" | "done" | "failed"
    variant,        \* per run: which subclass the generator object is
    period,         \* per run: the argument of generate(period)
    calls,          \* per run: the stages invoked so far, in invocation order
    rawData,        \* per run: const rawData       (line 28)
    calculatedData, \* per run: const calculatedData (line 35)
    formattedData,  \* per run: const formattedData  (line 46)
    result,         \* per run: the ReportResult returned (line 64), or NoResult
    error,          \* per run: the exception that left generate, or NoError
    clock,          \* the wall clock read by new Date() (line 56)
    fnVariant,      \* direct call of one stage method: the subclass
    fnOp,           \* direct call: "none" | "calculate" | "validate" | "format"
                    \*   | "calculate+validate" (validate of calculate's list)
    fnArg,          \* direct call: the list passed in
    fnRet,          \* direct call: the list returned (<<>> when none)
    fnErr,          \* direct call: the exception thrown, or NoError
    reports,        \* factory: the FinancialReport objects created so far
    reportRegistry, \* factory: const reportRegistry (part_004 line 370)
    reportCall,     \* factory: the last operation and how it ended
    instance,       \* GlobalAccountMaster.instance; 0 is undefined
    masters,        \* the GlobalAccountMaster objects constructed so far
    masterRefs,     \* the references getInstance has handed to callers
    masterCall      \* GlobalAccountMaster: the last call and how it ended

vars == <<pc, variant, period, calls, rawData, calculatedData, formattedData,
          result, error, clock, fnVariant, fnOp, fnArg, fnRet, fnErr,
          reports, reportRegistry, reportCall,
          instance, masters, masterRefs, masterCall>>

runVars == <<pc, variant, period, calls, rawData, calculatedData,
             formattedData, result, error, clock>>

fnVars == <<fnVariant, fnOp, fnArg, fnRet, fnErr>>

factoryVars == <<reports, reportRegistry, reportCall>>

masterVars == <<instance, masters, masterRefs, masterCall>>

(***************************************************************************)
(* Bounds.                                                                 *)
(***************************************************************************)
\* number of generator objects whose generate() calls may interleave
NumRuns == 2

\* a value of a generated input list lies in -MaxVal..MaxVal (units of 0.01)
MaxVal == 2

RunIds == 1..NumRuns

Variants == {"PL", "BS", "CF"}

\* "2024年度" of run() (line 375) and one other period
Periods == {"FY2024", "FY2025"}

(***************************************************************************)
(* Numbers.                                                                *)
(***************************************************************************)
\* n whole units in units of 0.01
Yen(n) == n * 100

\* the 0.01 of Math.abs(...) > 0.01, in units of 0.01
Tolerance == 1

\* Math.abs
Abs(x) == IF x < 0 THEN -x ELSE x

(***************************************************************************)
(* Errors and results.                                                     *)
(***************************************************************************)
NoError == [name |-> "", msg |-> "", args |-> <<>>]

\* new Error(message): every throw statement of the three validate methods
\* (lines 142, 147, 244, 249, 345, 350)
Err(m, a) == [name |-> "Error", msg |-> m, args |-> a]

\* data[0].period with data empty: data[0] is undefined and reading .period
\* of it throws a TypeError
TypeErrorUndefined ==
    [name |-> "TypeError",
     msg |-> "Cannot read properties of undefined (reading 'period')",
     args |-> <<>>]

NoResult == [reportType |-> "", period |-> "", data |-> <<>>,
             metadata |-> [generatedAt |-> 0, totalValue |-> 0]]

(***************************************************************************)
(* Array and string helpers.                                               *)
(***************************************************************************)
\* String.prototype.startsWith
StartsWith(s, prefix) ==
    /\ Len(s) >= Len(prefix)
    /\ SubSeq(s, 1, Len(prefix)) = prefix

\* faulty variant of FindIndex: the last match is taken
FindIndex_last(data, id) ==
    IF \E i \in 1..Len(data) : data[i].accountId = id
    THEN CHOOSE i \in 1..Len(data) :
            /\ data[i].accountId = id
            /\ \A j \in (i + 1)..Len(data) : data[j].accountId # id
    ELSE 0

\* Array.prototype.find((d) => d.accountId === id): the index of the first
\* match, 0 when find returns undefined
FindIndex(data, id) ==
    IF \E i \in 1..Len(data) : data[i].accountId = id
    THEN CHOOSE i \in 1..Len(data) :
            /\ data[i].accountId = id
            /\ \A j \in 1..(i - 1) : data[j].accountId # id
    ELSE 0

\* data.find((d) => d.accountId === id)?.value ?? 0
ValueOrZero(data, id) ==
    IF FindIndex(data, id) = 0 THEN 0 ELSE data[FindIndex(data, id)].value

\* data.filter((d) => d.accountId.startsWith(prefix))
FilterPrefix(data, prefix) ==
    SelectSeq(data, LAMBDA d : StartsWith(d.accountId, prefix))

\* data.reduce((sum, d) => sum + d.value, 0)
RECURSIVE SumValues(_)
SumValues(data) ==
    IF Len(data) = 0 THEN 0
    ELSE SumValues(SubSeq(data, 1, Len(data) - 1)) + data[Len(data)].value

\* data.reduce((sum, d) => sum + Math.abs(d.value), 0)
RECURSIVE SumAbsValues(_)
SumAbsValues(data) ==
    IF Len(data) = 0 THEN 0
    ELSE SumAbsValues(SubSeq(data, 1, Len(data) - 1)) + Abs(data[Len(data)].value)

\* an object literal { accountId, accountName, value, period }
Item(id, name, v, p) ==
    [accountId |-> id, accountName |-> name, value |-> v, period |-> p]

(***************************************************************************)
(* PLReportGenerator (lines 90-167).                                       *)
(***************************************************************************)
\* getReportType: "PL（損益計算書）"
PL_getReportType == "PL (Profit and Loss Statement)"

PL_loadData(p) ==
    << Item("REV001", "Sales", Yen(1000000), p),
       Item("COST001", "Cost of sales", Yen(-600000), p),
       Item("SG001", "SG&A expenses", Yen(-200000), p),
       Item("TAX001", "Income taxes", Yen(-50000), p) >>

PL_grossProfit(data) == ValueOrZero(data, "REV001") + ValueOrZero(data, "COST001")

\* faulty variant of PL_operatingIncome: the expenses, stored negative, are
\* subtracted
PL_operatingIncome_minus(data) ==
    PL_grossProfit(data) - ValueOrZero(data, "SG001")

PL_operatingIncome(data) == PL_grossProfit(data) + ValueOrZero(data, "SG001")

\* faulty variant of PL_netIncome: the taxes are not taken off
PL_netIncome_beforeTax(data) == PL_operatingIncome(data)

PL_netIncome(data) == PL_operatingIncome(data) + ValueOrZero(data, "TAX001")

\* the array literal of calculate; it reads data[0].period, so the caller
\* applies it to a non-empty list only (see CalculateThrows)
PL_calculate(data) ==
    data \o
    << Item("GP001", "Gross profit", PL_grossProfit(data), data[1].period),
       Item("OI001", "Operating income", PL_operatingIncome(data), data[1].period),
       Item("NI001", "Net income", PL_netIncome(data), data[1].period) >>

\* faulty variant of PL_validate: sales of exactly 0 pass
PL_validate_negativeOnly(data) ==
    IF FindIndex(data, "NI001") = 0
    THEN Err("PL report: net income has not been calculated", <<>>)
    ELSE IF /\ FindIndex(data, "REV001") # 0
            /\ data[FindIndex(data, "REV001")].value < 0
         THEN Err("PL report: sales are 0 or less", <<>>)
         ELSE NoError

\* faulty variant of PL_validate: a missing sales entry counts as sales of 0
PL_validate_revenueRequired(data) ==
    IF FindIndex(data, "NI001") = 0
    THEN Err("PL report: net income has not been calculated", <<>>)
    ELSE IF ValueOrZero(data, "REV001") <= 0
         THEN Err("PL report: sales are 0 or less", <<>>)
         ELSE NoError

\* the Error thrown by validate, NoError when it returns
PL_validate(data) ==
    IF FindIndex(data, "NI001") = 0
    THEN Err("PL report: net income has not been calculated", <<>>)
    ELSE IF /\ FindIndex(data, "REV001") # 0
            /\ data[FindIndex(data, "REV001")].value <= 0
         THEN Err("PL report: sales are 0 or less", <<>>)
         ELSE NoError

PL_formatItem(item) ==
    [item EXCEPT !.accountName =
        IF \/ StartsWith(item.accountId, "GP")
           \/ StartsWith(item.accountId, "OI")
           \/ StartsWith(item.accountId, "NI")
        THEN "[PROFIT]" \o item.accountName
        ELSE item.accountName]

\* faulty variant of PL_format: only the profit items are kept
PL_format_profitOnly(data) ==
    SelectSeq([i \in 1..Len(data) |-> PL_formatItem(data[i])],
              LAMBDA d : StartsWith(d.accountName, "[PROFIT]"))

\* data.map((item) => ...)
PL_format(data) == [i \in 1..Len(data) |-> PL_formatItem(data[i])]

(***************************************************************************)
(* BSReportGenerator (lines 170-274).                                      *)
(***************************************************************************)
\* getReportType: "BS（貸借対照表）"
BS_getReportType == "BS (Balance Sheet)"

\* faulty variant of BS_loadData: accounts payable are 399900, so the sheet
\* is out of balance by 100
BS_loadData_unbalanced(p) ==
    << Item("ASSET001", "Cash and deposits", Yen(500000), p),
       Item("ASSET002", "Accounts receivable", Yen(300000), p),
       Item("ASSET003", "Tangible fixed assets", Yen(2000000), p),
       Item("LIAB001", "Accounts payable", Yen(-399900), p),
       Item("LIAB002", "Borrowings", Yen(-1000000), p),
       Item("EQUITY001", "Capital stock", Yen(-800000), p),
       Item("EQUITY002", "Retained earnings", Yen(-600000), p) >>

BS_loadData(p) ==
    << Item("ASSET001", "Cash and deposits", Yen(500000), p),
       Item("ASSET002", "Accounts receivable", Yen(300000), p),
       Item("ASSET003", "Tangible fixed assets", Yen(2000000), p),
       Item("LIAB001", "Accounts payable", Yen(-400000), p),
       Item("LIAB002", "Borrowings", Yen(-1000000), p),
       Item("EQUITY001", "Capital stock", Yen(-800000), p),
       Item("EQUITY002", "Retained earnings", Yen(-600000), p) >>

\* faulty variant of BS_assets: the assets are summed by magnitude
BS_assets_abs(data) == SumAbsValues(FilterPrefix(data, "ASSET"))

BS_assets(data) == SumValues(FilterPrefix(data, "ASSET"))

\* faulty variant of BS_liabilities: the values are summed with their signs
BS_liabilities_signed(data) == SumValues(FilterPrefix(data, "LIAB"))

BS_liabilities(data) == SumAbsValues(FilterPrefix(data, "LIAB"))

\* faulty variant of BS_equity: the values are summed with their signs
BS_equity_signed(data) == SumValues(FilterPrefix(data, "EQUITY"))

BS_equity(data) == SumAbsValues(FilterPrefix(data, "EQUITY"))

BS_calculate(data) ==
    data \o
    << Item("TOTAL_ASSET", "Total assets", BS_assets(data), data[1].period),
       Item("TOTAL_LIAB", "Total liabilities", -BS_liabilities(data), data[1].period),
       Item("TOTAL_EQUITY", "Total net assets", -BS_equity(data), data[1].period) >>

\* const balance = totalAsset.value + totalLiab.value + totalEquity.value
BS_balance(data) ==
    data[FindIndex(data, "TOTAL_ASSET")].value
    + data[FindIndex(data, "TOTAL_LIAB")].value
    + data[FindIndex(data, "TOTAL_EQUITY")].value

\* faulty variant of BS_validate: the balance is compared without Math.abs
BS_validate_signed(data) ==
    IF \/ FindIndex(data, "TOTAL_ASSET") = 0
       \/ FindIndex(data, "TOTAL_LIAB") = 0
       \/ FindIndex(data, "TOTAL_EQUITY") = 0
    THEN Err("BS report: the total items have not been calculated", <<>>)
    ELSE IF BS_balance(data) > Tolerance
         THEN Err("BS report: out of balance (difference: ${balance})",
                  <<BS_balance(data)>>)
         ELSE NoError

BS_validate(data) ==
    IF \/ FindIndex(data, "TOTAL_ASSET") = 0
       \/ FindIndex(data, "TOTAL_LIAB") = 0
       \/ FindIndex(data, "TOTAL_EQUITY") = 0
    THEN Err("BS report: the total items have not been calculated", <<>>)
    ELSE IF Abs(BS_balance(data)) > Tolerance
         THEN Err("BS report: out of balance (difference: ${balance})",
                  <<BS_balance(data)>>)
         ELSE NoError

\* faulty variant of BS_formatItem: liabilities are shown as magnitudes
BS_formatItem_abs(item) ==
    IF StartsWith(item.accountId, "LIAB")
    THEN [item EXCEPT !.accountName = "[LIAB] " \o item.accountName,
                      !.value = Abs(item.value)]
    ELSE [item EXCEPT !.accountName =
            (IF StartsWith(item.accountId, "ASSET") THEN "[ASSET] "
             ELSE IF StartsWith(item.accountId, "EQUITY") THEN "[EQUITY] "
             ELSE IF StartsWith(item.accountId, "TOTAL") THEN "[TOTAL]"
             ELSE "") \o item.accountName]

BS_formatItem(item) ==
    [item EXCEPT !.accountName =
        (IF StartsWith(item.accountId, "ASSET") THEN "[ASSET] "
         ELSE IF StartsWith(item.accountId, "LIAB") THEN "[LIAB] "
         ELSE IF StartsWith(item.accountId, "EQUITY") THEN "[EQUITY] "
         ELSE IF StartsWith(item.accountId, "TOTAL") THEN "[TOTAL]"
         ELSE "") \o item.accountName]

\* data.map((item) => ...)
BS_format(data) == [i \in 1..Len(data) |-> BS_formatItem(data[i])]

(***************************************************************************)
(* CFReportGenerator (lines 277-371).                                      *)
(***************************************************************************)
\* getReportType: "CF（キャッシュフロー計算書）"
CF_getReportType == "CF (Cash Flow Statement)"

CF_loadData(p) ==
    << Item("CFO001", "CF from operating activities", Yen(300000), p),
       Item("CFI001", "CF from investing activities", Yen(-150000), p),
       Item("CFF001", "CF from financing activities", Yen(-100000), p) >>

CF_netIncrease(data) ==
    ValueOrZero(data, "CFO001") + ValueOrZero(data, "CFI001")
    + ValueOrZero(data, "CFF001")

\* const beginningCash = 400000
CF_beginningCash == Yen(400000)

\* faulty variant of CF_endingCash: the beginning balance is left out
CF_endingCash_netOnly(data) == CF_netIncrease(data)

CF_endingCash(data) == CF_beginningCash + CF_netIncrease(data)

\* faulty variant of CF_calculate: the derived items carry the period of
\* run() whatever the period of the list
CF_calculate_fixedPeriod(data) ==
    data \o
    << Item("CF_BEGIN", "Beginning cash balance", CF_beginningCash, "FY2024"),
       Item("CF_NET", "Net change in cash and cash equivalents",
            CF_netIncrease(data), "FY2024"),
       Item("CF_END", "Ending cash balance", CF_endingCash(data), "FY2024") >>

\* faulty variant of CF_calculate: the ending balance is not appended
CF_calculate_withoutEnd(data) ==
    data \o
    << Item("CF_BEGIN", "Beginning cash balance", CF_beginningCash, data[1].period),
       Item("CF_NET", "Net change in cash and cash equivalents",
            CF_netIncrease(data), data[1].period) >>

CF_calculate(data) ==
    data \o
    << Item("CF_BEGIN", "Beginning cash balance", CF_beginningCash, data[1].period),
       Item("CF_NET", "Net change in cash and cash equivalents",
            CF_netIncrease(data), data[1].period),
       Item("CF_END", "Ending cash balance", CF_endingCash(data), data[1].period) >>

\* const calculated = begin.value + net.value
CF_calculated(data) ==
    data[FindIndex(data, "CF_BEGIN")].value + data[FindIndex(data, "CF_NET")].value

\* faulty variant of CF_validate: the difference is compared without Math.abs
CF_validate_signed(data) ==
    IF \/ FindIndex(data, "CF_BEGIN") = 0
       \/ FindIndex(data, "CF_NET") = 0
       \/ FindIndex(data, "CF_END") = 0
    THEN Err("CF report: the required items have not been calculated", <<>>)
    ELSE IF CF_calculated(data) - data[FindIndex(data, "CF_END")].value
                > Tolerance
         THEN Err("CF report: cash balance mismatch (calculated: ${calculated}, ending: ${end.value})",
                  <<CF_calculated(data), data[FindIndex(data, "CF_END")].value>>)
         ELSE NoError

\* faulty variant of CF_validate: the mismatch message names no balance
CF_validate_noValues(data) ==
    IF \/ FindIndex(data, "CF_BEGIN") = 0
       \/ FindIndex(data, "CF_NET") = 0
       \/ FindIndex(data, "CF_END") = 0
    THEN Err("CF report: the required items have not been calculated", <<>>)
    ELSE IF Abs(CF_calculated(data) - data[FindIndex(data, "CF_END")].value)
                > Tolerance
         THEN Err("CF report: cash balance mismatch (calculated: ${calculated}, ending: ${end.value})",
                  <<>>)
         ELSE NoError

CF_validate(data) ==
    IF \/ FindIndex(data, "CF_BEGIN") = 0
       \/ FindIndex(data, "CF_NET") = 0
       \/ FindIndex(data, "CF_END") = 0
    THEN Err("CF report: the required items have not been calculated", <<>>)
    ELSE IF Abs(CF_calculated(data) - data[FindIndex(data, "CF_END")].value)
                > Tolerance
         THEN Err("CF report: cash balance mismatch (calculated: ${calculated}, ending: ${end.value})",
                  <<CF_calculated(data), data[FindIndex(data, "CF_END")].value>>)
         ELSE NoError

CF_formatItem(item) ==
    [item EXCEPT !.accountName =
        (IF StartsWith(item.accountId, "CFO") THEN "[OPERATING] "
         ELSE IF StartsWith(item.accountId, "CFI") THEN "[INVESTING] "
         ELSE IF StartsWith(item.accountId, "CFF") THEN "[FINANCING] "
         ELSE IF StartsWith(item.accountId, "CF_") THEN "[BALANCE]"
         ELSE "") \o item.accountName]

\* data.map((item) => ...)
CF_format(data) == [i \in 1..Len(data) |-> CF_formatItem(data[i])]

(***************************************************************************)
(* Virtual dispatch on the subclass v of the generator object.             *)
(***************************************************************************)
\* faulty variant of getReportType: every subclass answers as PL does
getReportType_alwaysPL(v) == PL_getReportType

getReportType(v) ==
    CASE v = "PL" -> PL_getReportType
      [] v = "BS" -> BS_getReportType
      [] v = "CF" -> CF_getReportType

loadData(v, p) ==
    CASE v = "PL" -> PL_loadData(p)
      [] v = "BS" -> BS_loadData(p)
      [] v = "CF" -> CF_loadData(p)

\* all three calculate methods build their result with data[0].period, which
\* throws a TypeError when data is empty (lines 122, 220, 321)
CalculateThrows(data) == Len(data) = 0

calculate(v, data) ==
    CASE v = "PL" -> PL_calculate(data)
      [] v = "BS" -> BS_calculate(data)
      [] v = "CF" -> CF_calculate(data)

validate(v, data) ==
    CASE v = "PL" -> PL_validate(data)
      [] v = "BS" -> BS_validate(data)
      [] v = "CF" -> CF_validate(data)

format(v, data) ==
    CASE v = "PL" -> PL_format(data)
      [] v = "BS" -> BS_format(data)
      [] v = "CF" -> CF_format(data)

\* faulty variant of calculateTotal: the reading of the clock is added in
calculateTotal_withClock(data) == SumValues(data) + clock

\* FinancialReportGenerator.calculateTotal (lines 84-86)
calculateTotal(data) == SumValues(data)

(***************************************************************************)
(* Lists other than the built-in ones.  loadData is abstract in            *)
(* FinancialReportGenerator (line 68) and the built-in bodies stand for a  *)
(* read from a database or an API (line 96), so a generator may be handed  *)
(* any FinancialData[] of one period: any subset of the accounts named in  *)
(* ids, in that order, with any values in -MaxVal..MaxVal.                 *)
(***************************************************************************)
\* marks an account left out of the list
Absent == -(MaxVal + 1)

Options == Absent..MaxVal

RECURSIVE Rows(_, _, _)
Rows(ids, f, p) ==
    IF Len(ids) = 0 THEN <<>>
    ELSE LET n == Len(ids)
             front == Rows(SubSeq(ids, 1, n - 1), f, p)
         IN  IF f[n] = Absent THEN front
             ELSE Append(front, Item(ids[n], "Account " \o ids[n], f[n], p))

\* data with the value of its i-th item replaced by x
WithValue(data, i, x) == [data EXCEPT ![i].value = x]

\* the built-in balance sheet with the liability LIAB001 raised by 100
BS_perturbed(p) == WithValue(BS_loadData(p), 4, Yen(-400000) + Yen(100))

\* the accounts of the raw lists a data source may hand to generate
RawAccounts(v) ==
    CASE v = "PL" -> <<"REV001", "COST001", "SG001", "TAX001">>
      [] v = "BS" -> <<"ASSET001", "ASSET002", "LIAB001", "LIAB002", "EQUITY001">>
      [] v = "CF" -> <<"CFO001", "CFI001", "CFF001">>

\* the accounts of the lists that hold derived items
DerivedAccounts(v) ==
    CASE v = "PL" -> <<"REV001", "COST001", "NI001">>
      [] v = "BS" -> <<"ASSET001", "TOTAL_ASSET", "TOTAL_LIAB", "TOTAL_EQUITY">>
      [] v = "CF" -> <<"CFO001", "CF_BEGIN", "CF_NET", "CF_END">>

\* the built-in raw lists, and the balance sheet off by 100
BuiltInSources(v, p) ==
    CASE v = "PL" -> {PL_loadData(p)}
      [] v = "BS" -> {BS_loadData(p), BS_perturbed(p)}
      [] v = "CF" -> {CF_loadData(p)}

\* the built-in lists after calculate, and the cash flow list with
\* endingCash raised by 0.02
BuiltInCalculated(v, p) ==
    CASE v = "PL" -> {PL_calculate(PL_loadData(p))}
      [] v = "BS" -> {BS_calculate(BS_loadData(p)), BS_calculate(BS_perturbed(p))}
      [] v = "CF" -> {CF_calculate(CF_loadData(p)),
                      WithValue(CF_calculate(CF_loadData(p)), 6, Yen(450000) + 2)}

\* data is a raw list a data source may hand to generate
IsSource(v, p, data) ==
    \/ data \in BuiltInSources(v, p)
    \/ \E f \in [1..Len(RawAccounts(v)) -> Options] :
          data = Rows(RawAccounts(v), f, p)

\* lists in which a raw account occurs twice
DuplicateSources(v, p) ==
    CASE v = "PL" -> {<< Item("REV001", "Account REV001", 2, p),
                         Item("REV001", "Account REV001", -1, p),
                         Item("COST001", "Account COST001", -1, p) >>}
      [] v = "BS" -> {<< Item("ASSET001", "Account ASSET001", 2, p),
                         Item("ASSET001", "Account ASSET001", 1, p),
                         Item("LIAB001", "Account LIAB001", -3, p) >>}
      [] v = "CF" -> {<< Item("CFO001", "Account CFO001", 2, p),
                         Item("CFO001", "Account CFO001", -1, p),
                         Item("CFI001", "Account CFI001", -1, p) >>}

\* data is a list a stage method may be called with directly: a raw list or
\* a list that holds derived items
IsInput(v, p, data) ==
    \/ IsSource(v, p, data)
    \/ data \in BuiltInCalculated(v, p)
    \/ data \in DuplicateSources(v, p)
    \/ \E f \in [1..Len(DerivedAccounts(v)) -> Options] :
          data = Rows(DerivedAccounts(v), f, p)

(***************************************************************************)
(* FinancialReportGenerator.generate (lines 24-65), one action per stage.  *)
(***************************************************************************)
\* faulty variant of StageOrder: format is called before validate
StageOrder_formatBeforeValidate ==
    <<"loadData", "beforeCalculation", "calculate", "afterCalculation",
      "format", "validate", "assemble">>

\* faulty variant of StageOrder: the call of validate is left out
StageOrder_withoutValidate ==
    <<"loadData", "beforeCalculation", "calculate", "afterCalculation",
      "format", "assemble">>

\* the stage calls of generate in statement order (lines 28, 32, 35, 39, 42,
\* 46, 50-64)
StageOrder ==
    <<"loadData", "beforeCalculation", "calculate", "afterCalculation",
      "validate", "format", "assemble">>

\* run r is about to execute stage s: the stages before it have returned
AtStage(r, s) ==
    /\ pc[r] = "running"
    /\ Len(calls[r]) < Len(StageOrder)
    /\ StageOrder[Len(calls[r]) + 1] = s

\* faulty variant of Propagates: generate catches and drops the exception
Propagates_swallowed(e) == FALSE

\* generate has no try/catch: an exception thrown by a stage leaves generate
Propagates(e) == e # NoError

\* the stage s of run r was invoked and threw e or returned (e = NoError)
Invoked(r, s, e) ==
    /\ calls' = [calls EXCEPT ![r] = Append(@, s)]
    /\ IF Propagates(e)
       THEN /\ pc' = [pc EXCEPT ![r] = "failed"]
            /\ error' = [error EXCEPT ![r] = e]
       ELSE /\ pc' = pc
            /\ error' = error

\* const gen = new XReportGenerator(); gen.generate(period)  (lines 378-387)
Start(r) ==
    /\ pc[r] = "idle"
    /\ \E v \in Variants, p \in Periods :
          /\ variant' = [variant EXCEPT ![r] = v]
          /\ period' = [period EXCEPT ![r] = p]
    /\ pc' = [pc EXCEPT ![r] = "running"]
    /\ UNCHANGED <<calls, rawData, calculatedData, formattedData, result,
                   error, clock, fnVars, factoryVars,
                   masterVars>>

\* line 28, with the built-in loadData of the subclass
LoadData(r) ==
    /\ AtStage(r, "loadData")
    /\ rawData' = [rawData EXCEPT ![r] = loadData(variant[r], period[r])]
    /\ Invoked(r, "loadData", NoError)
    /\ UNCHANGED <<variant, period, calculatedData, formattedData, result,
                   clock, fnVars, factoryVars,
                   masterVars>>

\* line 28, with a loadData that reads the period's rows from a data source
LoadDataFromSource(r) ==
    /\ AtStage(r, "loadData")
    /\ \E data \in BuiltInSources(variant[r], period[r]) \cup
                  { Rows(RawAccounts(variant[r]), f, period[r]) :
                      f \in [1..Len(RawAccounts(variant[r])) -> Options] } :
          rawData' = [rawData EXCEPT ![r] = data]
    /\ Invoked(r, "loadData", NoError)
    /\ UNCHANGED <<variant, period, calculatedData, formattedData, result,
                   clock, fnVars, factoryVars,
                   masterVars>>

\* faulty variant of BeforeCalculation: the hook takes the last item off the
\* list it is handed (data.pop())
BeforeCalculation_popping(r) ==
    /\ AtStage(r, "beforeCalculation")
    /\ Invoked(r, "beforeCalculation", NoError)
    /\ rawData' = [rawData EXCEPT ![r] = SubSeq(@, 1, Len(@) - 1)]
    /\ UNCHANGED <<variant, period, calculatedData, formattedData,
                   result, clock, fnVars, factoryVars,
                   masterVars>>

\* line 32: the default hook and the PL override only log
BeforeCalculation(r) ==
    /\ AtStage(r, "beforeCalculation")
    /\ Invoked(r, "beforeCalculation", NoError)
    /\ UNCHANGED <<variant, period, rawData, calculatedData, formattedData,
                   result, clock, fnVars, factoryVars,
                   masterVars>>

\* line 35
Calculate(r) ==
    /\ AtStage(r, "calculate")
    /\ IF CalculateThrows(rawData[r])
       THEN /\ Invoked(r, "calculate", TypeErrorUndefined)
            /\ UNCHANGED calculatedData
       ELSE /\ Invoked(r, "calculate", NoError)
            /\ calculatedData' =
                  [calculatedData EXCEPT ![r] = calculate(variant[r], rawData[r])]
    /\ UNCHANGED <<variant, period, rawData, formattedData, result, clock,
                   fnVars, factoryVars,
                   masterVars>>

\* line 39: the default hook and the BS override only log
AfterCalculation(r) ==
    /\ AtStage(r, "afterCalculation")
    /\ Invoked(r, "afterCalculation", NoError)
    /\ UNCHANGED <<variant, period, rawData, calculatedData, formattedData,
                   result, clock, fnVars, factoryVars,
                   masterVars>>

\* line 42
Validate(r) ==
    /\ AtStage(r, "validate")
    /\ Invoked(r, "validate", validate(variant[r], calculatedData[r]))
    /\ UNCHANGED <<variant, period, rawData, calculatedData, formattedData,
                   result, clock, fnVars, factoryVars,
                   masterVars>>

\* line 46
Format(r) ==
    /\ AtStage(r, "format")
    /\ formattedData' =
          [formattedData EXCEPT ![r] = format(variant[r], calculatedData[r])]
    /\ Invoked(r, "format", NoError)
    /\ UNCHANGED <<variant, period, rawData, calculatedData, result, clock,
                   fnVars, factoryVars,
                   masterVars>>

\* faulty variant of TotalledList: the list is kept in a field shared by
\* all generator objects, here the one the first generator wrote
TotalledList_shared(r) == formattedData[1]

\* faulty variant of TotalledList: the raw list is totalled
TotalledList_raw(r) == rawData[r]

\* the list calculateTotal is applied to (line 50)
TotalledList(r) == formattedData[r]

\* lines 50-64
Assemble(r) ==
    /\ AtStage(r, "assemble")
    /\ result' = [result EXCEPT ![r] =
          [reportType |-> getReportType(variant[r]),
           period |-> period[r],
           data |-> formattedData[r],
           metadata |-> [generatedAt |-> clock,
                         totalValue |-> calculateTotal(TotalledList(r))]]]
    /\ clock' = clock + 1
    /\ calls' = [calls EXCEPT ![r] = Append(@, "assemble")]
    /\ pc' = [pc EXCEPT ![r] = "done"]
    /\ UNCHANGED <<variant, period, rawData, calculatedData, formattedData,
                   error, fnVars, factoryVars,
                   masterVars>>

(***************************************************************************)
(* Direct calls of one stage method on a list.                             *)
(***************************************************************************)
CallCalculate ==
    /\ fnOp = "none"
    /\ fnOp' = "calculate"
    /\ IF CalculateThrows(fnArg)
       THEN fnErr' = TypeErrorUndefined /\ fnRet' = <<>>
       ELSE fnErr' = NoError /\ fnRet' = calculate(fnVariant, fnArg)
    /\ UNCHANGED <<fnVariant, fnArg, runVars, factoryVars,
                   masterVars>>

CallValidate ==
    /\ fnOp = "none"
    /\ fnOp' = "validate"
    /\ fnErr' = validate(fnVariant, fnArg)
    /\ fnRet' = <<>>
    /\ UNCHANGED <<fnVariant, fnArg, runVars, factoryVars,
                   masterVars>>

\* validate called on the list calculate returned, as lines 35 and 42 do
CallValidateOfCalculated ==
    /\ fnOp = "calculate"
    /\ fnErr = NoError
    /\ fnOp' = "calculate+validate"
    /\ fnErr' = validate(fnVariant, fnRet)
    /\ UNCHANGED <<fnVariant, fnArg, fnRet, runVars, factoryVars,
                   masterVars>>

CallFormat ==
    /\ fnOp = "none"
    /\ fnOp' = "format"
    /\ fnErr' = NoError
    /\ fnRet' = format(fnVariant, fnArg)
    /\ UNCHANGED <<fnVariant, fnArg, runVars, factoryVars,
                   masterVars>>

(***************************************************************************)
(* Factory method example of src/unnamed/part_004: FinancialReport, its    *)
(* four subclasses, FinancialReportFactory and reportRegistry.             *)
(*                                                                         *)
(* A report object is a record [type, generated, content]: type names its  *)
(* class, generated is the protected field of line 71, and content says    *)
(* whether the subclass's private content field (pdfContent, excelData,    *)
(* htmlContent, csvContent) still holds its initializer ("") or what       *)
(* generate built from this.data ("rendered").  A reference to a report is *)
(* its index in reports.  Every report of the example is built from the    *)
(* same FinancialData, which no method changes, so data is not carried.    *)
(***************************************************************************)
ReportTypes == {"PDF", "Excel", "HTML", "CSV"}

\* number of reports the client creates
MaxReports == 3

\* new PDFReport(data) and its siblings: the field initializers of lines
\* 71, 116, 163, 210 and 289
NewReport(t) == [type |-> t, generated |-> FALSE, content |-> ""]

PDFReport_generate(rep) ==
    [rep EXCEPT !.content = "rendered", !.generated = TRUE]

ExcelReport_generate(rep) ==
    [rep EXCEPT !.content = "rendered", !.generated = TRUE]

HTMLReport_generate(rep) ==
    [rep EXCEPT !.content = "rendered", !.generated = TRUE]

CSVReport_generate(rep) ==
    [rep EXCEPT !.content = "rendered", !.generated = TRUE]

\* report.generate() on a FinancialReport reference: dynamic dispatch
Report_generate(rep) ==
    CASE rep.type = "PDF"   -> PDFReport_generate(rep)
      [] rep.type = "Excel" -> ExcelReport_generate(rep)
      [] rep.type = "HTML"  -> HTMLReport_generate(rep)
      [] rep.type = "CSV"   -> CSVReport_generate(rep)

\* whether export(path) throws: the guard at the head of each export
PDFReport_exportThrows(rep) == ~rep.generated

ExcelReport_exportThrows(rep) == ~rep.generated

HTMLReport_exportThrows(rep) == ~rep.generated

\* an export that writes whatever the content field holds
CSVReport_exportThrows_unguarded(rep) == FALSE

CSVReport_exportThrows(rep) == ~rep.generated

Report_exportThrows(rep) ==
    CASE rep.type = "PDF"   -> PDFReport_exportThrows(rep)
      [] rep.type = "Excel" -> ExcelReport_exportThrows(rep)
      [] rep.type = "HTML"  -> HTMLReport_exportThrows(rep)
      [] rep.type = "CSV"   -> CSVReport_exportThrows(rep)

\* reportRegistry.get(t) || []
RegistryGet(registry, t) ==
    IF t \in DOMAIN registry THEN registry[t] ELSE <<>>

\* registerReport of the factory for type t: get, push, set
registerReport(registry, t, ref) ==
    [k \in (DOMAIN registry) \cup {t} |->
        IF k = t THEN Append(RegistryGet(registry, t), ref) ELSE registry[k]]

NoReportCall == [op |-> "none", report |-> 0, threw |-> FALSE]

InitFactory ==
    /\ reports = <<>>
    /\ reportRegistry = [k \in {} |-> <<>>]
    /\ reportCall = NoReportCall

\* factory.create(data) on the factory for type t (lines 355-359):
\* createReport, registerReport, return report
Create(t) ==
    /\ Len(reports) < MaxReports
    /\ reports' = Append(reports, NewReport(t))
    /\ reportRegistry' = registerReport(reportRegistry, t, Len(reports) + 1)
    /\ reportCall' = [op |-> "create", report |-> Len(reports) + 1,
                      threw |-> FALSE]
    /\ UNCHANGED <<runVars, fnVars, masterVars>>

\* report.generate() on the report with reference i
Generate(i) ==
    /\ i \in 1..Len(reports)
    /\ reports' = [reports EXCEPT ![i] = Report_generate(@)]
    /\ reportCall' = [op |-> "generate", report |-> i, threw |-> FALSE]
    /\ UNCHANGED <<reportRegistry, runVars, fnVars, masterVars>>

\* report.export(path) on the report with reference i: throws or logs
Export(i) ==
    /\ i \in 1..Len(reports)
    /\ reportCall' = [op |-> "export", report |-> i,
                      threw |-> Report_exportThrows(reports[i])]
    /\ UNCHANGED <<reports, reportRegistry, runVars, fnVars, masterVars>>

(***************************************************************************)
(* Singleton example of src/cli/02_singleton_fs.ts: GlobalAccountMaster.   *)
(*                                                                         *)
(* A GlobalAccount is a record [id, code, fsType, sortOrder], the fields   *)
(* the lookups read; name, accountType, isCredit and parentId are carried  *)
(* along by the source and read by none of its methods.  A Map is the      *)
(* sequence of its entries [key, value] in insertion order.  A             *)
(* GlobalAccountMaster object is a record [accounts, accountsByCode,       *)
(* initialized]; a reference to one is its index in masters.  A lookup's   *)
(* return value is a sequence of accounts: the array returned, <<a>> for   *)
(* the account a, and <<>> for undefined.                                  *)
(***************************************************************************)
Account(id, code, fsType, sortOrder) ==
    [id |-> id, code |-> code, fsType |-> fsType, sortOrder |-> sortOrder]

\* const standardAccounts of initialize
StandardAccounts == <<
    Account("REVENUE", "REV", "PL", 1),
    Account("COST_OF_SALES", "COS", "PL", 2),
    Account("GROSS_PROFIT", "GP", "PL", 3),
    Account("SG_EXPENSES", "SGA", "PL", 4),
    Account("OPERATING_INCOME", "OI", "PL", 5),
    Account("NET_INCOME", "NI", "PL", 6),
    Account("CASH", "CASH", "BS", 10),
    Account("ACCOUNTS_RECEIVABLE", "AR", "BS", 11),
    Account("CURRENT_ASSETS", "CA", "BS", 9),
    Account("PPE", "PPE", "BS", 20),
    Account("NON_CURRENT_ASSETS", "NCA", "BS", 19),
    Account("TOTAL_ASSETS", "TA", "BS", 30),
    Account("ACCOUNTS_PAYABLE", "AP", "BS", 40),
    Account("CURRENT_LIABILITIES", "CL", "BS", 39),
    Account("LONG_TERM_DEBT", "LTD", "BS", 50),
    Account("NON_CURRENT_LIABILITIES", "NCL", "BS", 49),
    Account("TOTAL_LIABILITIES", "TL", "BS", 60),
    Account("SHARE_CAPITAL", "SC", "BS", 70),
    Account("RETAINED_EARNINGS", "RE", "BS", 71),
    Account("TOTAL_EQUITY", "TE", "BS", 80),
    Account("CFO", "CFO", "CF", 100),
    Account("CFI", "CFI", "CF", 101),
    Account("CFF", "CFF", "CF", 102)
>>

\* the arguments lookups are called with: every registered key and one
\* that is not registered
LookupIds == {StandardAccounts[i].id : i \in DOMAIN StandardAccounts}
                 \cup {"UNKNOWN"}

LookupCodes == {StandardAccounts[i].code : i \in DOMAIN StandardAccounts}
                   \cup {"UNKNOWN"}

MapHas(m, k) == \E i \in DOMAIN m : m[i].key = k

\* Map.prototype.get: <<value>>, or <<>> for undefined
MapGet(m, k) ==
    IF MapHas(m, k)
    THEN <<m[CHOOSE i \in DOMAIN m : m[i].key = k].value>>
    ELSE <<>>

\* Map.prototype.set: an existing key keeps its place
MapSet(m, k, v) ==
    IF MapHas(m, k)
    THEN [i \in DOMAIN m |->
             IF m[i].key = k THEN [key |-> k, value |-> v] ELSE m[i]]
    ELSE Append(m, [key |-> k, value |-> v])

\* Array.from(map.values())
MapValues(m) == [i \in DOMAIN m |-> m[i].value]

\* a placed into the list sorted by sortOrder, behind its equals
InsertBySortOrder(sorted, a) ==
    LET n == Cardinality({i \in DOMAIN sorted :
                              sorted[i].sortOrder <= a.sortOrder})
    IN  SubSeq(sorted, 1, n) \o <<a>> \o SubSeq(sorted, n + 1, Len(sorted))

RECURSIVE SortBySortOrder(_)
\* list.sort((a, b) => a.sortOrder - b.sortOrder): stable
SortBySortOrder(list) ==
    IF list = <<>>
    THEN <<>>
    ELSE InsertBySortOrder(SortBySortOrder(SubSeq(list, 1, Len(list) - 1)),
                           list[Len(list)])

RECURSIVE FilterFsType(_, _)
\* list.filter((account) => account.fsType === fsType)
FilterFsType(list, fsType) ==
    IF list = <<>>
    THEN <<>>
    ELSE (IF Head(list).fsType = fsType THEN <<Head(list)>> ELSE <<>>)
             \o FilterFsType(Tail(list), fsType)

\* new GlobalAccountMaster(): the field initializers of lines 36-38
NewMaster ==
    [accounts |-> <<>>, accountsByCode |-> <<>>, initialized |-> FALSE]

RECURSIVE RegisterAccounts(_, _)
\* the loop of lines 322-325 over list
RegisterAccounts(obj, list) ==
    IF list = <<>>
    THEN obj
    ELSE RegisterAccounts(
             [obj EXCEPT
                 !.accounts = MapSet(@, Head(list).id, Head(list)),
                 !.accountsByCode = MapSet(@, Head(list).code, Head(list))],
             Tail(list))

\* initialize(): the object it leaves behind
initialize(obj) ==
    IF obj.initialized
    THEN obj
    ELSE [RegisterAccounts(obj, StandardAccounts)
             EXCEPT !.initialized = TRUE]

\* initialize(): what it writes to the console (lines 72 and 328-330)
initialize_log(obj) ==
    IF obj.initialized THEN "alreadyInitialized" ELSE "registered"

\* whether a lookup throws: the guard at the head of each of the four
getAccountById_throws(obj) == ~obj.initialized

getAccountByCode_throws(obj) == ~obj.initialized

getAccountsByFsType_throws(obj) == ~obj.initialized

\* a getAllAccounts that returns whatever the map holds
getAllAccounts_throws_unguarded(obj) == FALSE

getAllAccounts_throws(obj) == ~obj.initialized

\* what a lookup returns when it does not throw
getAccountById(obj, id) == MapGet(obj.accounts, id)

getAccountByCode(obj, code) == MapGet(obj.accountsByCode, code)

getAccountsByFsType(obj, fsType) ==
    SortBySortOrder(FilterFsType(MapValues(obj.accounts), fsType))

getAllAccounts(obj) == SortBySortOrder(MapValues(obj.accounts))

hasAccount(obj, id) == MapHas(obj.accounts, id)

\* a call and how it ended: what it threw or returned (ref for getInstance,
\* ret for a lookup, found for hasAccount) and what it wrote to the console
MasterCall(op, ref, arg, threw, ret, found, log) ==
    [op |-> op, ref |-> ref, arg |-> arg, threw |-> threw, ret |-> ret,
     found |-> found, log |-> log]

NoMasterCall == MasterCall("none", 0, "", FALSE, <<>>, FALSE, "")

InitMaster ==
    /\ instance = 0
    /\ masters = <<>>
    /\ masterRefs = {}
    /\ masterCall = NoMasterCall

\* GlobalAccountMaster.getInstance(); the constructor writes to the console
GetInstance ==
    /\ IF instance = 0
       THEN /\ masters' = Append(masters, NewMaster)
            /\ instance' = Len(masters) + 1
       ELSE UNCHANGED <<masters, instance>>
    /\ masterRefs' = masterRefs \cup {instance'}
    /\ masterCall' = MasterCall("getInstance", instance', "", FALSE, <<>>,
                                FALSE,
                                IF instance = 0 THEN "created" ELSE "")
    /\ UNCHANGED <<runVars, fnVars, factoryVars>>

\* initialize() on the object a caller holds
Initialize(ref) ==
    /\ ref \in masterRefs
    /\ masters' = [masters EXCEPT ![ref] = initialize(@)]
    /\ masterCall' = MasterCall("initialize", ref, "", FALSE, <<>>, FALSE,
                                initialize_log(masters[ref]))
    /\ UNCHANGED <<instance, masterRefs, runVars, fnVars, factoryVars>>

\* a lookup on the object a caller holds ends by throwing or by returning
Lookup(op, ref, arg, throws, ret) ==
    /\ ref \in masterRefs
    /\ masterCall' = MasterCall(op, ref, arg, throws,
                                IF throws THEN <<>> ELSE ret, FALSE, "")
    /\ UNCHANGED <<instance, masters, masterRefs, runVars, fnVars,
                   factoryVars>>

GetAccountById(ref, id) ==
    Lookup("getAccountById", ref, id,
           getAccountById_throws(masters[ref]),
           getAccountById(masters[ref], id))

GetAccountByCode(ref, code) ==
    Lookup("getAccountByCode", ref, code,
           getAccountByCode_throws(masters[ref]),
           getAccountByCode(masters[ref], code))

GetAccountsByFsType(ref, fsType) ==
    Lookup("getAccountsByFsType", ref, fsType,
           getAccountsByFsType_throws(masters[ref]),
           getAccountsByFsType(masters[ref], fsType))

GetAllAccounts(ref) ==
    Lookup("getAllAccounts", ref, "",
           getAllAccounts_throws(masters[ref]),
           getAllAccounts(masters[ref]))

\* hasAccount(id): no guard, returns a boolean
HasAccount(ref, id) ==
    /\ ref \in masterRefs
    /\ masterCall' = MasterCall("hasAccount", ref, id, FALSE, <<>>,
                                hasAccount(masters[ref], id), "")
    /\ UNCHANGED <<instance, masters, masterRefs, runVars, fnVars,
                   factoryVars>>

(***************************************************************************)
(* Specifications.                                                         *)
(***************************************************************************)
InitRuns ==
    /\ pc = [r \in RunIds |-> "idle"]
    /\ variant = [r \in RunIds |-> "PL"]
    /\ period = [r \in RunIds |-> "FY2024"]
    /\ calls = [r \in RunIds |-> <<>>]
    /\ rawData = [r \in RunIds |-> <<>>]
    /\ calculatedData = [r \in RunIds |-> <<>>]
    /\ formattedData = [r \in RunIds |-> <<>>]
    /\ result = [r \in RunIds |-> NoResult]
    /\ error = [r \in RunIds |-> NoError]
    /\ clock = 0

InitNoCall ==
    /\ fnVariant = "PL"
    /\ fnOp = "none"
    /\ fnArg = <<>>
    /\ fnRet = <<>>
    /\ fnErr = NoError

\* the program: generate() of the three built-in generators, any period,
\* the stages of different runs interleaved (run() itself calls the three
\* one after another, which is one of the interleavings)
Init == InitRuns /\ InitNoCall /\ InitFactory /\ InitMaster

Next ==
    \E r \in RunIds :
        \/ Start(r)
        \/ LoadData(r)
        \/ BeforeCalculation(r)
        \/ Calculate(r)
        \/ AfterCalculation(r)
        \/ Validate(r)
        \/ Format(r)
        \/ Assemble(r)

Spec == Init /\ [][Next]_vars

\* a step of the call generate() of run r: the body of generate from its
\* first statement to its return
RunStep(r) ==
    \/ LoadData(r)
    \/ BeforeCalculation(r)
    \/ Calculate(r)
    \/ AfterCalculation(r)
    \/ Validate(r)
    \/ Format(r)
    \/ Assemble(r)

\* the generator objects whose calls are followed to their end
LiveRuns == {1, 2}

\* two calls of generate() of the program, interleaved
NextLive == \E r \in LiveRuns : Start(r) \/ RunStep(r)

\* the program with its scheduling: generate is synchronous straight-line
\* code without loops or awaits (lines 24-65), so a call that has been
\* entered keeps executing its next statement; when a call is made is up to
\* the caller, so Start carries no fairness
SpecLive ==
    Init /\ [][NextLive]_vars /\ \A r \in LiveRuns : WF_vars(RunStep(r))

\* one generate() whose loadData reads from a data source
NextSrc ==
    \/ Start(1)
    \/ LoadDataFromSource(1)
    \/ BeforeCalculation(1)
    \/ Calculate(1)
    \/ AfterCalculation(1)
    \/ Validate(1)
    \/ Format(1)
    \/ Assemble(1)

SpecSrc == Init /\ [][NextSrc]_vars

\* direct calls of calculate, validate and format on any input list
InitFn ==
    /\ InitRuns
    /\ fnVariant \in Variants
    /\ \E p \in Periods : IsInput(fnVariant, p, fnArg)
    /\ fnOp = "none"
    /\ fnRet = <<>>
    /\ fnErr = NoError
    /\ InitFactory
    /\ InitMaster

NextFn ==
    \/ CallCalculate
    \/ CallValidate
    \/ CallValidateOfCalculated
    \/ CallFormat

SpecFn == InitFn /\ [][NextFn]_vars

\* the factory example: a client creating reports through the four
\* factories and calling generate and export on them in any order
NextFactory ==
    \/ \E t \in ReportTypes : Create(t)
    \/ \E i \in 1..MaxReports : Generate(i)
    \/ \E i \in 1..MaxReports : Export(i)

SpecFactory == Init /\ [][NextFactory]_vars

\* the singleton example: callers of getInstance, initialize and the
\* lookups in any order
NextMaster ==
    \/ GetInstance
    \/ \E ref \in masterRefs :
        \/ Initialize(ref)
        \/ \E id \in LookupIds : GetAccountById(ref, id)
        \/ \E code \in LookupCodes : GetAccountByCode(ref, code)
        \/ \E fsType \in Variants : GetAccountsByFsType(ref, fsType)
        \/ GetAllAccounts(ref)
        \/ \E id \in LookupIds : HasAccount(ref, id)

SpecMaster == Init /\ [][NextMaster]_vars

(***************************************************************************)
(* Vocabulary of the properties.                                           *)
(***************************************************************************)
Last(s) == s[Len(s)]

IsPrefix(s, t) == Len(s) <= Len(t) /\ s = SubSeq(t, 1, Len(s))

InvokedStages(r) == { calls[r][i] : i \in 1..Len(calls[r]) }

\* how many items of data carry the accountId id
Occurrences(data, id) ==
    Cardinality({ i \in 1..Len(data) : data[i].accountId = id })

\* the value of the one item of data that carries the accountId id
ValueOf(data, id) ==
    data[CHOOSE i \in 1..Len(data) : data[i].accountId = id].value

\* the arithmetic sum of the values of data, first item first
RECURSIVE ArithmeticSum(_)
ArithmeticSum(data) ==
    IF data = <<>> THEN 0 ELSE Head(data).value + ArithmeticSum(Tail(data))

\* the seven stages in the order the specification fixes
SevenStages ==
    <<"loadData", "beforeCalculation", "calculate", "afterCalculation",
      "validate", "format", "assemble">>

(***************************************************************************)
(* C1: in every run of generate, whatever the variant, the stages invoked  *)
(* so far are an initial part of loadData, beforeCalculation, calculate,   *)
(* afterCalculation, validate, format, assemble (so they are invoked in    *)
(* that order, each at most once, one after the other), and a run that has *)
(* returned has invoked all seven.                                         *)
(***************************************************************************)
C1_StagesInOrder ==
    \A r \in RunIds :
        /\ IsPrefix(calls[r], SevenStages)
        /\ pc[r] = "done" => calls[r] = SevenStages
        /\ pc[r] = "idle" => calls[r] = <<>>

\* two runs of different variants, one returned and one in the middle
C1_Witness ==
    \E r, q \in RunIds :
        /\ pc[r] = "done" /\ calls[r] = SevenStages
        /\ pc[q] = "running" /\ Len(calls[q]) = 4
        /\ variant[r] # variant[q]

C3_ValidateFailurePropagates ==
    \A r \in RunIds :
        ( /\ "validate" \in InvokedStages(r)
          /\ validate(variant[r], calculatedData[r]) # NoError )
        => /\ pc[r] = "failed"
           /\ error[r] = validate(variant[r], calculatedData[r])
           /\ Last(calls[r]) = "validate"
           /\ formattedData[r] = <<>>
           /\ result[r] = NoResult

\* the balance sheet with one liability raised by 100: thrown by validate
C3_Witness ==
    \E r \in RunIds :
        /\ variant[r] = "BS"
        /\ pc[r] = "failed"
        /\ Last(calls[r]) = "validate"
        /\ error[r].args = <<Yen(100)>>
        /\ result[r] = NoResult

(***************************************************************************)
(* C4: in every successful run, metadata.totalValue is the arithmetic sum  *)
(* of the values of the items of ReportResult.data, the formatted list.    *)
(***************************************************************************)
C4_TotalIsSumOfData ==
    \A r \in RunIds :
        pc[r] = "done" =>
            /\ result[r].data = formattedData[r]
            /\ result[r].metadata.totalValue = ArithmeticSum(result[r].data)

\* a successful run whose total differs from the sum of the raw list
C4_Witness ==
    \E r \in RunIds :
        /\ pc[r] = "done"
        /\ result[r].metadata.totalValue = ArithmeticSum(result[r].data)
        /\ result[r].metadata.totalValue # ArithmeticSum(rawData[r])

(***************************************************************************)
(* C5: format of PL, BS and CF returns a list of the same length as its    *)
(* input whose items have, position by position, the accountId, value and  *)
(* period of the input's.                                                  *)
(***************************************************************************)
C5_FormatKeepsAllButName ==
    fnOp = "format" =>
        /\ Len(fnRet) = Len(fnArg)
        /\ \A i \in 1..Len(fnArg) :
              /\ fnRet[i].accountId = fnArg[i].accountId
              /\ fnRet[i].value = fnArg[i].value
              /\ fnRet[i].period = fnArg[i].period

\* a formatted balance sheet: a renamed liability with a negative value
C5_Witness ==
    /\ fnOp = "format"
    /\ fnVariant = "BS"
    /\ \E i \in 1..Len(fnArg) :
          /\ fnArg[i].accountId = "LIAB001"
          /\ fnArg[i].value < 0
          /\ fnRet[i].accountName # fnArg[i].accountName
          /\ fnRet[i].value = fnArg[i].value

(***************************************************************************)
(* C6: BS validate, on a list that holds the three summary items, throws   *)
(* exactly when |totalAssets + totalLiabilities + totalEquity| is more     *)
(* than 0.01, and the exception carries that sum with its sign.            *)
(***************************************************************************)
HoldsBSSummaries(data) ==
    /\ Occurrences(data, "TOTAL_ASSET") = 1
    /\ Occurrences(data, "TOTAL_LIAB") = 1
    /\ Occurrences(data, "TOTAL_EQUITY") = 1

SummaryBalance(data) ==
    ValueOf(data, "TOTAL_ASSET") + ValueOf(data, "TOTAL_LIAB")
    + ValueOf(data, "TOTAL_EQUITY")

C6_BSValidateBalance ==
    (fnVariant = "BS" /\ fnOp = "validate" /\ HoldsBSSummaries(fnArg)) =>
        /\ fnErr # NoError <=>
              (SummaryBalance(fnArg) > 1 \/ SummaryBalance(fnArg) < -1)
        /\ fnErr # NoError => fnErr.args = <<SummaryBalance(fnArg)>>

\* the balance sheet off by 100 is rejected with the discrepancy 100
C6_Witness ==
    /\ fnVariant = "BS"
    /\ fnOp = "validate"
    /\ HoldsBSSummaries(fnArg)
    /\ SummaryBalance(fnArg) = Yen(100)
    /\ fnErr.args = <<Yen(100)>>

(***************************************************************************)
(* C7: for a valid balance sheet (rows of the three categories, assets not *)
(* negative, liabilities and equity not positive, the values summing to    *)
(* within 0.01 of zero) the three totals appended by calculate sum to      *)
(* within 0.01 of zero and validate accepts; for a list obtained from a    *)
(* valid one by changing one value so that the values sum to more than     *)
(* 0.01 away from zero, validate rejects.                                  *)
(***************************************************************************)
IsAssetRow(item) == StartsWith(item.accountId, "ASSET")

IsLiabilityOrEquityRow(item) ==
    StartsWith(item.accountId, "LIAB") \/ StartsWith(item.accountId, "EQUITY")

WithinTolerance(x) == -1 <= x /\ x <= 1

ValidBS(data) ==
    /\ data # <<>>
    /\ \A i \in 1..Len(data) :
          \/ IsAssetRow(data[i]) /\ data[i].value >= 0
          \/ IsLiabilityOrEquityRow(data[i]) /\ data[i].value <= 0
    /\ WithinTolerance(ArithmeticSum(data))

\* data differs from some valid list in the value of one row, and its
\* values sum to more than 0.01 away from zero
PerturbedBS(data) ==
    /\ data # <<>>
    /\ ~WithinTolerance(ArithmeticSum(data))
    /\ \E i \in 1..Len(data), d \in -1..1 :
          ValidBS(WithValue(data, i, d - (ArithmeticSum(data) - data[i].value)))

\* no liability or equity row of data has a positive value
KeepsSigns(data) ==
    \A i \in 1..Len(data) :
        IsLiabilityOrEquityRow(data[i]) => data[i].value <= 0

\* the items calculate appended to its input
AppendedTotals == SubSeq(fnRet, Len(fnArg) + 1, Len(fnRet))

C7_AcceptsValid ==
    (fnVariant = "BS" /\ ValidBS(fnArg)) =>
        /\ fnOp = "calculate" => fnErr = NoError
        /\ fnOp = "calculate+validate" =>
              /\ Len(AppendedTotals) = 3
              /\ WithinTolerance(ArithmeticSum(AppendedTotals))
              /\ fnErr = NoError

\* the claim as stated: every perturbation is rejected
C7_RejectsEveryPerturbation ==
    /\ C7_AcceptsValid
    /\ (fnVariant = "BS" /\ fnOp = "calculate+validate" /\ PerturbedBS(fnArg))
          => fnErr # NoError

\* the claim amended: a perturbation that leaves no liability or equity
\* value positive is rejected
C7_RejectsSignKeepingPerturbation ==
    /\ C7_AcceptsValid
    /\ ( /\ fnVariant = "BS"
         /\ fnOp = "calculate+validate"
         /\ PerturbedBS(fnArg)
         /\ KeepsSigns(fnArg) )
          => fnErr # NoError

\* the built-in balance sheet with LIAB001 raised by 100 is rejected
C7_Witness ==
    /\ fnVariant = "BS"
    /\ fnOp = "calculate+validate"
    /\ PerturbedBS(fnArg)
    /\ KeepsSigns(fnArg)
    /\ Len(fnArg) = 7
    /\ fnErr.args = <<Yen(100)>>

(***************************************************************************)
(* C8: CF validate, on a list that holds the beginning, net-change and     *)
(* ending items, throws exactly when beginningCash + netIncrease differs   *)
(* from endingCash by more than 0.01.                                      *)
(***************************************************************************)
HoldsCFSummaries(data) ==
    /\ Occurrences(data, "CF_BEGIN") = 1
    /\ Occurrences(data, "CF_NET") = 1
    /\ Occurrences(data, "CF_END") = 1

CashDifference(data) ==
    ValueOf(data, "CF_BEGIN") + ValueOf(data, "CF_NET") - ValueOf(data, "CF_END")

C8_CFValidateReconciles ==
    (fnVariant = "CF" /\ fnOp = "validate" /\ HoldsCFSummaries(fnArg)) =>
        (fnErr # NoError <=> ~WithinTolerance(CashDifference(fnArg)))

\* the calculated built-in list with endingCash raised by 0.02 is rejected
C8_Witness ==
    /\ fnVariant = "CF"
    /\ fnOp = "validate"
    /\ HoldsCFSummaries(fnArg)
    /\ ValueOf(fnArg, "CF_BEGIN") + ValueOf(fnArg, "CF_NET") = Yen(450000)
    /\ ValueOf(fnArg, "CF_END") = Yen(450000) + 2
    /\ fnErr # NoError

(***************************************************************************)
(* C9: PL calculate, on a list that holds the four raw accounts, appends   *)
(* GP001 = revenue + costOfSales, OI001 = GP001 + sgExpenses and           *)
(* NI001 = OI001 + taxes, so NI001 = revenue + costOfSales + sgExpenses +  *)
(* taxes; 1000000, -600000, -200000, -50000 give 400000, 200000, 150000.   *)
(***************************************************************************)
HoldsPLRaw(data) ==
    /\ Occurrences(data, "REV001") = 1
    /\ Occurrences(data, "COST001") = 1
    /\ Occurrences(data, "SG001") = 1
    /\ Occurrences(data, "TAX001") = 1

C9_PLCalculate ==
    (fnVariant = "PL" /\ fnOp = "calculate" /\ HoldsPLRaw(fnArg)) =>
        LET n   == Len(fnArg)
            rev == ValueOf(fnArg, "REV001")
            cos == ValueOf(fnArg, "COST001")
            sga == ValueOf(fnArg, "SG001")
            tax == ValueOf(fnArg, "TAX001")
        IN  /\ fnErr = NoError
            /\ Len(fnRet) = n + 3
            /\ fnRet[n + 1].accountId = "GP001"
            /\ fnRet[n + 2].accountId = "OI001"
            /\ fnRet[n + 3].accountId = "NI001"
            /\ fnRet[n + 1].value = rev + cos
            /\ fnRet[n + 2].value = fnRet[n + 1].value + sga
            /\ fnRet[n + 3].value = fnRet[n + 2].value + tax
            /\ fnRet[n + 3].value = rev + cos + sga + tax
            /\ (rev = Yen(1000000) /\ cos = Yen(-600000)
                /\ sga = Yen(-200000) /\ tax = Yen(-50000))
               => /\ fnRet[n + 1].value = Yen(400000)
                  /\ fnRet[n + 2].value = Yen(200000)
                  /\ fnRet[n + 3].value = Yen(150000)

\* calculate of the built-in PL list
C9_Witness ==
    /\ fnVariant = "PL"
    /\ fnOp = "calculate"
    /\ HoldsPLRaw(fnArg)
    /\ ValueOf(fnArg, "REV001") = Yen(1000000)
    /\ Len(fnRet) = 7
    /\ fnRet[7].value = Yen(150000)

(***************************************************************************)
(* C10: PL validate throws when the list has no NI001 entry and when its   *)
(* REV001 entry has a value of 0 or less; it returns when the list has an  *)
(* NI001 entry and a REV001 entry with a value above 0.                    *)
(***************************************************************************)
C10_PLValidate ==
    (fnVariant = "PL" /\ fnOp = "validate") =>
        /\ Occurrences(fnArg, "NI001") = 0 => fnErr # NoError
        /\ (Occurrences(fnArg, "REV001") = 1 /\ ValueOf(fnArg, "REV001") <= 0)
              => fnErr # NoError
        /\ ( /\ Occurrences(fnArg, "NI001") = 1
             /\ Occurrences(fnArg, "REV001") = 1
             /\ ValueOf(fnArg, "REV001") > 0 )
              => fnErr = NoError

\* a list with net income and revenue 0 is rejected for its revenue
C10_Witness ==
    /\ fnVariant = "PL"
    /\ fnOp = "validate"
    /\ Occurrences(fnArg, "NI001") = 1
    /\ Occurrences(fnArg, "REV001") = 1
    /\ ValueOf(fnArg, "REV001") = 0
    /\ fnErr = Err("PL report: sales are 0 or less", <<>>)

(***************************************************************************)
(* C11: for a raw list of any length, the empty list and lists that lack   *)
(* some or all of the source accounts included, calculate of PL, BS and CF *)
(* completes without error and counts every absent source account as 0.    *)
(***************************************************************************)
\* the value of the account id in data, 0 when data has no such account
SourceValue(data, id) ==
    IF Occurrences(data, id) = 0 THEN 0 ELSE ValueOf(data, id)

\* no item of data has an accountId that starts with prefix
LacksCategory(data, prefix) ==
    \A i \in 1..Len(data) : ~StartsWith(data[i].accountId, prefix)

C11_CalculateTreatsAbsentAsZero ==
    fnOp = "calculate" =>
        LET n == Len(fnArg)
        IN  /\ fnErr = NoError
            /\ Len(fnRet) = n + 3
            /\ fnVariant = "PL" =>
                  /\ fnRet[n + 1].value =
                        SourceValue(fnArg, "REV001") + SourceValue(fnArg, "COST001")
                  /\ fnRet[n + 2].value =
                        fnRet[n + 1].value + SourceValue(fnArg, "SG001")
                  /\ fnRet[n + 3].value =
                        fnRet[n + 2].value + SourceValue(fnArg, "TAX001")
            /\ fnVariant = "BS" =>
                  /\ LacksCategory(fnArg, "ASSET") => fnRet[n + 1].value = 0
                  /\ LacksCategory(fnArg, "LIAB") => fnRet[n + 2].value = 0
                  /\ LacksCategory(fnArg, "EQUITY") => fnRet[n + 3].value = 0
            /\ fnVariant = "CF" =>
                  fnRet[n + 2].value =
                        SourceValue(fnArg, "CFO001") + SourceValue(fnArg, "CFI001")
                        + SourceValue(fnArg, "CFF001")

\* the same for the lists that hold at least one item
C11_NonEmptyListsOnly ==
    (fnOp = "calculate" /\ fnArg # <<>>) => C11_CalculateTreatsAbsentAsZero

(***************************************************************************)
(* C12: every failure raised by validate, in any variant, is of the single *)
(* error kind ValidationError and carries a message that names the         *)
(* invariant that failed together with the observed discrepancy value.     *)
(***************************************************************************)
\* validate was called and threw
ValidateFailed ==
    /\ fnOp \in {"validate", "calculate+validate"}
    /\ fnErr # NoError

\* the messages that say which items validate did not find
MissingItemMessages ==
    { "PL report: net income has not been calculated",
      "BS report: the total items have not been calculated",
      "CF report: the required items have not been calculated" }

\* the messages that say which relation between the values does not hold
BrokenRelationMessages ==
    { "PL report: sales are 0 or less",
      "BS report: out of balance (difference: ${balance})",
      "CF report: cash balance mismatch (calculated: ${calculated}, ending: ${end.value})" }

DataAlone(v, p) == format(v, calculate(v, loadData(v, p)))

\* everything run q holds
StateOfRun(q) ==
    <<pc[q], variant[q], period[q], calls[q], rawData[q], calculatedData[q],
      formattedData[q], result[q], error[q]>>

ReturnsWhatItReturnsAlone(r) ==
    pc[r] = "done" =>
        /\ result[r].reportType = getReportType(variant[r])
        /\ result[r].period = period[r]
        /\ result[r].data = DataAlone(variant[r], period[r])
        /\ result[r].metadata.totalValue =
              ArithmeticSum(DataAlone(variant[r], period[r]))

C13_InterleavedRunsIndependent ==
    /\ [](\A r \in RunIds : ReturnsWhatItReturnsAlone(r))
    /\ [][\E r \in RunIds :
            \A q \in RunIds \ {r} : StateOfRun(q)' = StateOfRun(q)]_vars

\* two runs of different variants and periods: the second has returned
\* while the first has called calculate but not yet afterCalculation
C13_Witness ==
    /\ pc[1] = "running"
    /\ Len(calls[1]) = 3
    /\ pc[2] = "done"
    /\ variant[1] = "BS"
    /\ variant[2] = "CF"
    /\ period[1] # period[2]
    /\ result[2].data = DataAlone("CF", period[2])

(***************************************************************************)
(* C14: for every variant, every derived item appended by calculate        *)
(* carries the period of the input batch, so in every successful run       *)
(* generate(p) all items of the result's data have period p.               *)
(***************************************************************************)
\* the stage s of run r was invoked and returned
Returned(r, s) ==
    \E i \in 1..Len(calls[r]) :
        /\ calls[r][i] = s
        /\ (i = Len(calls[r]) => pc[r] # "failed")

C14_DerivedItemsCarryPeriod ==
    \A r \in RunIds :
        /\ Returned(r, "calculate") =>
              \A i \in (Len(rawData[r]) + 1)..Len(calculatedData[r]) :
                  \A j \in 1..Len(rawData[r]) :
                      calculatedData[r][i].period = rawData[r][j].period
        /\ pc[r] = "done" =>
              \A i \in 1..Len(result[r].data) :
                  result[r].data[i].period = period[r]

\* a successful cash flow run for the period other than that of run()
C14_Witness ==
    /\ pc[1] = "done"
    /\ variant[1] = "CF"
    /\ period[1] = "FY2025"
    /\ Len(rawData[1]) = 3
    /\ Len(result[1].data) = 6
    /\ result[1].data[6].accountId = "CF_END"
    /\ result[1].data[6].period = "FY2025"

(***************************************************************************)
(* C15: the beforeCalculation and afterCalculation hooks (the default      *)
(* no-ops and the overrides of PL and BS) leave the list they receive      *)
(* unchanged: calculate receives the list loadData returned, and validate  *)
(* and format receive the list calculate returned.                         *)
(***************************************************************************)
\* this step is the call of a hook by run r
HookStep(r) ==
    \E s \in {"beforeCalculation", "afterCalculation"} :
        calls'[r] = Append(calls[r], s)

\* what validate did in run r is what it does on the list calculate returned
ValidateSawCalculated(r) ==
    /\ Returned(r, "validate") => validate(variant[r], calculatedData[r]) = NoError
    /\ (pc[r] = "failed" /\ Last(calls[r]) = "validate") =>
          error[r] = validate(variant[r], calculatedData[r])

C15_HooksLeaveListsUnchanged ==
    /\ [][\A r \in RunIds :
            /\ HookStep(r) =>
                  /\ rawData'[r] = rawData[r]
                  /\ calculatedData'[r] = calculatedData[r]
            /\ Returned(r, "loadData") => rawData'[r] = rawData[r]
            /\ Returned(r, "calculate") => calculatedData'[r] = calculatedData[r]
         ]_vars
    /\ [](\A r \in RunIds :
            /\ Returned(r, "calculate") =>
                  calculatedData[r] = calculate(variant[r], rawData[r])
            /\ ValidateSawCalculated(r)
            /\ Returned(r, "format") =>
                  formattedData[r] = format(variant[r], calculatedData[r]))

\* a BS run, whose afterCalculation is the override, has come back from both
\* hooks with the lists loadData and calculate returned
C15_Witness ==
    /\ variant[1] = "BS"
    /\ pc[1] = "running"
    /\ calls[1] = <<"loadData", "beforeCalculation", "calculate", "afterCalculation">>
    /\ Len(rawData[1]) = 5
    /\ Len(calculatedData[1]) = 8
    /\ SubSeq(calculatedData[1], 1, 5) = rawData[1]

(***************************************************************************)
(* C16: for every variant and every raw list, calculate returns a new list *)
(* that is the raw list, in its order and with every entry unchanged,      *)
(* followed by the newly derived items; the list passed in is not modified *)
(* (fnArg stays the list calculate was called with).                       *)
(***************************************************************************)
\* the accountIds of the items calculate derives, in the order it adds them
DerivedIds(v) ==
    CASE v = "PL" -> <<"GP001", "OI001", "NI001">>
      [] v = "BS" -> <<"TOTAL_ASSET", "TOTAL_LIAB", "TOTAL_EQUITY">>
      [] v = "CF" -> <<"CF_BEGIN", "CF_NET", "CF_END">>

C16_CalculateAppendsToRawList ==
    fnOp = "calculate" =>
        LET n == Len(fnArg)
        IN  /\ fnErr = NoError
            /\ Len(fnRet) = n + 3
            /\ \A i \in 1..n : fnRet[i] = fnArg[i]
            /\ \A k \in 1..3 : fnRet[n + k].accountId = DerivedIds(fnVariant)[k]

\* the same for the lists that hold at least one item
C16_NonEmptyListsOnly ==
    (fnOp = "calculate" /\ fnArg # <<>>) => C16_CalculateAppendsToRawList

(***************************************************************************)
(* C17: within one run the length of the list never decreases from stage   *)
(* to stage: length(loadData output) <= length(calculate output)           *)
(* = length(list seen by validate) = length(format output)                 *)
(* = length(result data).  The list validate sees is calculatedData (C15). *)
(***************************************************************************)
C17_LengthNeverDecreases ==
    \A r \in RunIds :
        /\ Returned(r, "calculate") =>
              Len(rawData[r]) <= Len(calculatedData[r])
        /\ Returned(r, "format") =>
              Len(formattedData[r]) = Len(calculatedData[r])
        /\ pc[r] = "done" =>
              /\ Len(result[r].data) = Len(formattedData[r])
              /\ Len(rawData[r]) <= Len(result[r].data)

\* a successful PL run on a list of two accounts returns five items
C17_Witness ==
    /\ pc[1] = "done"
    /\ variant[1] = "PL"
    /\ Len(rawData[1]) = 2
    /\ Len(calculatedData[1]) = 5
    /\ Len(formattedData[1]) = 5
    /\ Len(result[1].data) = 5

(***************************************************************************)
(* C18: BS calculate appends totalAssets equal to the signed sum of all    *)
(* asset values, totalLiabilities equal to minus the sum of the absolute   *)
(* values of all liability values, and totalEquity equal to minus the sum  *)
(* of the absolute values of all equity values; assets 500000, 300000,     *)
(* 2000000, liabilities -400000, -1000000 and equity -800000, -600000 give *)
(* 2800000, -1400000, -1400000.                                            *)
(***************************************************************************)
\* the sum of the values of the items of data whose accountId starts with
\* prefix, each value as it is
RECURSIVE SignedSumOf(_, _)
SignedSumOf(data, prefix) ==
    IF data = <<>> THEN 0
    ELSE (IF StartsWith(Head(data).accountId, prefix) THEN Head(data).value ELSE 0)
         + SignedSumOf(Tail(data), prefix)

\* the same sum with every value replaced by its absolute value
RECURSIVE MagnitudeSumOf(_, _)
MagnitudeSumOf(data, prefix) ==
    IF data = <<>> THEN 0
    ELSE (IF ~StartsWith(Head(data).accountId, prefix) THEN 0
          ELSE IF Head(data).value < 0 THEN 0 - Head(data).value
          ELSE Head(data).value)
         + MagnitudeSumOf(Tail(data), prefix)

\* the values of the items of data, in order
ValuesOf(data) == [i \in 1..Len(data) |-> data[i].value]

C18_BSTotals ==
    (fnVariant = "BS" /\ fnOp = "calculate" /\ fnErr = NoError) =>
        LET n == Len(fnArg)
        IN  /\ Len(fnRet) = n + 3
            /\ fnRet[n + 1].accountId = "TOTAL_ASSET"
            /\ fnRet[n + 2].accountId = "TOTAL_LIAB"
            /\ fnRet[n + 3].accountId = "TOTAL_EQUITY"
            /\ fnRet[n + 1].value = SignedSumOf(fnArg, "ASSET")
            /\ fnRet[n + 2].value = 0 - MagnitudeSumOf(fnArg, "LIAB")
            /\ fnRet[n + 3].value = 0 - MagnitudeSumOf(fnArg, "EQUITY")
            /\ ( /\ ValuesOf(FilterPrefix(fnArg, "ASSET")) =
                       <<Yen(500000), Yen(300000), Yen(2000000)>>
                 /\ ValuesOf(FilterPrefix(fnArg, "LIAB")) =
                       <<Yen(-400000), Yen(-1000000)>>
                 /\ ValuesOf(FilterPrefix(fnArg, "EQUITY")) =
                       <<Yen(-800000), Yen(-600000)>> )
               => /\ fnRet[n + 1].value = Yen(2800000)
                  /\ fnRet[n + 2].value = Yen(-1400000)
                  /\ fnRet[n + 3].value = Yen(-1400000)

\* calculate of a list with a negative asset and liabilities of both signs:
\* the asset total is signed, the liability total is minus the magnitudes
C18_Witness ==
    /\ fnVariant = "BS"
    /\ fnOp = "calculate"
    /\ fnErr = NoError
    /\ ValuesOf(FilterPrefix(fnArg, "ASSET")) = <<2, -1>>
    /\ ValuesOf(FilterPrefix(fnArg, "LIAB")) = <<-2, 1>>
    /\ ValuesOf(FilterPrefix(fnArg, "EQUITY")) = <<-1>>
    /\ ValuesOf(SubSeq(fnRet, Len(fnArg) + 1, Len(fnRet))) = <<1, -3, -1>>

\* calculate of the built-in balance sheet
C18_BuiltInReached ==
    /\ fnVariant = "BS"
    /\ fnOp = "calculate"
    /\ Len(fnArg) = 7
    /\ ValuesOf(SubSeq(fnRet, 8, 10)) =
          <<Yen(2800000), Yen(-1400000), Yen(-1400000)>>

(***************************************************************************)
(* C19: for all CF raw values, calculate appends netIncrease = operating + *)
(* investing + financing, beginningCash = 400000 whatever the input, and   *)
(* endingCash = beginningCash + netIncrease, so beginningCash +            *)
(* netIncrease = endingCash holds exactly and validate accepts every list  *)
(* calculate produces; 300000, -150000, -100000 give 50000 and 450000.     *)
(* A list of CF raw values is a non-empty list that holds each raw account *)
(* at most once and none of CF_BEGIN, CF_NET, CF_END; an account it lacks  *)
(* counts as 0.                                                            *)
(***************************************************************************)
IsCFRawList(data) ==
    /\ data # <<>>
    /\ \A id \in {"CFO001", "CFI001", "CFF001"} : Occurrences(data, id) <= 1
    /\ \A id \in {"CF_BEGIN", "CF_NET", "CF_END"} : Occurrences(data, id) = 0

C19_CFCalculate ==
    ( /\ fnVariant = "CF"
      /\ fnOp \in {"calculate", "calculate+validate"}
      /\ IsCFRawList(fnArg) ) =>
        LET n   == Len(fnArg)
            cfo == SourceValue(fnArg, "CFO001")
            cfi == SourceValue(fnArg, "CFI001")
            cff == SourceValue(fnArg, "CFF001")
        IN  /\ fnErr = NoError
            /\ Len(fnRet) = n + 3
            /\ fnRet[n + 1].accountId = "CF_BEGIN"
            /\ fnRet[n + 2].accountId = "CF_NET"
            /\ fnRet[n + 3].accountId = "CF_END"
            /\ fnRet[n + 1].value = Yen(400000)
            /\ fnRet[n + 2].value = cfo + cfi + cff
            /\ fnRet[n + 3].value = Yen(400000) + cfo + cfi + cff
            /\ fnRet[n + 1].value + fnRet[n + 2].value = fnRet[n + 3].value
            /\ (cfo = Yen(300000) /\ cfi = Yen(-150000) /\ cff = Yen(-100000))
               => /\ fnRet[n + 2].value = Yen(50000)
                  /\ fnRet[n + 3].value = Yen(450000)

\* validate has accepted what calculate made of the built-in cash flow list
C19_Witness ==
    /\ fnVariant = "CF"
    /\ fnOp = "calculate+validate"
    /\ IsCFRawList(fnArg)
    /\ SourceValue(fnArg, "CFO001") = Yen(300000)
    /\ fnErr = NoError
    /\ ValuesOf(SubSeq(fnRet, 4, 6)) = <<Yen(400000), Yen(50000), Yen(450000)>>

(***************************************************************************)
(* C20: a successful run generate(period) returns a result whose           *)
(* reportType is the report type of its rule-set, whose period is exactly  *)
(* the period argument, and whose data is exactly the list the format      *)
(* stage returned (same items, same order).                                *)
(***************************************************************************)
\* the report type each rule-set names
ReportTypeOf(v) ==
    CASE v = "PL" -> "PL (Profit and Loss Statement)"
      [] v = "BS" -> "BS (Balance Sheet)"
      [] v = "CF" -> "CF (Cash Flow Statement)"

C20_ResultFields ==
    \A r \in RunIds :
        pc[r] = "done" =>
            /\ result[r].reportType = ReportTypeOf(variant[r])
            /\ result[r].period = period[r]
            /\ Len(result[r].data) = Len(formattedData[r])
            /\ \A i \in 1..Len(formattedData[r]) :
                  result[r].data[i] = formattedData[r][i]
            /\ formattedData[r] = format(variant[r], calculatedData[r])

\* a balance sheet run for the period other than that of run() has returned
C20_Witness ==
    /\ pc[1] = "done"
    /\ variant[1] = "BS"
    /\ period[1] = "FY2025"
    /\ result[1].reportType = "BS (Balance Sheet)"
    /\ result[1].period = "FY2025"
    /\ Len(result[1].data) = 8
    /\ result[1].data[8].accountName = "[TOTAL]Total net assets"

(***************************************************************************)
(* C21: runs are deterministic: two runs of the same variant with the same *)
(* period reach the same terminal state (both succeed or both fail, with   *)
(* the same error) and, when they succeed, return identical reportType,    *)
(* period, data and totalValue; only generatedAt may differ.               *)
(***************************************************************************)
Terminal(r) == pc[r] \in {"done", "failed"}

DistinctIds(data) ==
    \A i, j \in 1..Len(data) :
        data[i].accountId = data[j].accountId => i = j

\* calculate and format, given a list of distinct accountIds, return one
C22_AccountIdsDistinct ==
    (fnOp \in {"calculate", "format"} /\ fnErr = NoError /\ DistinctIds(fnArg)) =>
        /\ DistinctIds(fnRet)
        /\ fnOp = "calculate" =>
              \A i \in (Len(fnArg) + 1)..Len(fnRet) :
                  Occurrences(fnArg, fnRet[i].accountId) = 0

\* the same for the runs of the three built-in generators
C22_BuiltInRunsDistinct ==
    \A r \in RunIds :
        /\ DistinctIds(rawData[r])
        /\ DistinctIds(calculatedData[r])
        /\ DistinctIds(formattedData[r])
        /\ DistinctIds(result[r].data)

(***************************************************************************)
(* C23: for each of the three built-in generators and every period, a run  *)
(* of generate that has started eventually reaches the success terminal    *)
(* state: with the fixed data of loadData no stage fails and a result is   *)
(* returned.                                                               *)
(***************************************************************************)
C23_BuiltInRunsSucceed ==
    \A r \in LiveRuns :
        (pc[r] = "running") ~> (pc[r] = "done" /\ result[r] # NoResult)

\* a PL run and a CF run have both returned their results
C23_Witness ==
    /\ pc[1] = "done"
    /\ pc[2] = "done"
    /\ variant[1] = "PL"
    /\ variant[2] = "CF"
    /\ result[1] # NoResult
    /\ result[2] # NoResult

(***************************************************************************)
(* C24: totalValue adds the derived summary rows on top of the raw rows    *)
(* they were computed from: for the built-in data and any period the       *)
(* results have 7 (PL), 10 (BS) and 6 (CF) items and totalValue 900000     *)
(* (PL), 0 (BS) and 950000 (CF).                                           *)
(***************************************************************************)
C24_BuiltInTotals ==
    \A r \in RunIds :
        pc[r] = "done" =>
            LET data  == result[r].data
                n     == Len(rawData[r])
                total == result[r].metadata.totalValue
            IN  /\ total = ArithmeticSum(rawData[r])
                           + ArithmeticSum(SubSeq(data, n + 1, Len(data)))
                /\ variant[r] = "PL" => (Len(data) = 7 /\ total = Yen(900000))
                /\ variant[r] = "BS" => (Len(data) = 10 /\ total = Yen(0))
                /\ variant[r] = "CF" => (Len(data) = 6 /\ total = Yen(950000))

\* a PL run has returned: raw rows summing to 150000 and 750000 of derived
\* rows on top
C24_Witness ==
    /\ pc[1] = "done"
    /\ variant[1] = "PL"
    /\ ArithmeticSum(rawData[1]) = Yen(150000)
    /\ Len(result[1].data) = 7
    /\ result[1].metadata.totalValue = Yen(900000)

(***************************************************************************)
(* C25: BS calculate ignores the sign of liability and equity items: for   *)
(* every raw list, negating the value of any liability or equity item      *)
(* leaves totalLiabilities and totalEquity unchanged, both totals are      *)
(* always less than or equal to 0, and the verdict of validate on the      *)
(* calculated list is unchanged.                                           *)
(***************************************************************************)
\* data with the sign of the value of its i-th item turned
Negated(data, i) == [data EXCEPT ![i].value = 0 - @]

\* the three totals at the end of a calculated list
TotalsOf(calculated) ==
    ValuesOf(SubSeq(calculated, Len(calculated) - 2, Len(calculated)))

C25_BSIgnoresSign ==
    ( /\ fnVariant = "BS"
      /\ fnOp \in {"calculate", "calculate+validate"}
      /\ fnArg # <<>> ) =>
        /\ TotalsOf(fnRet)[2] <= 0
        /\ TotalsOf(fnRet)[3] <= 0
        /\ \A i \in 1..Len(fnArg) :
              IsLiabilityOrEquityRow(fnArg[i]) =>
                  LET other == calculate("BS", Negated(fnArg, i))
                  IN  /\ TotalsOf(other) = TotalsOf(fnRet)
                      /\ fnOp = "calculate+validate" =>
                            (validate("BS", other) = NoError <=> fnErr = NoError)

\* a list with a positive liability and a positive equity value, accepted by
\* validate as its negation is
C25_Witness ==
    /\ fnVariant = "BS"
    /\ fnOp = "calculate+validate"
    /\ ValuesOf(FilterPrefix(fnArg, "ASSET")) = <<2, 2>>
    /\ ValuesOf(FilterPrefix(fnArg, "LIAB")) = <<-2, 1>>
    /\ ValuesOf(FilterPrefix(fnArg, "EQUITY")) = <<1>>
    /\ TotalsOf(fnRet) = <<4, -3, -1>>
    /\ fnErr = NoError

(***************************************************************************)
(* C26: PL validate accepts every list that contains a netIncome (NI001)   *)
(* entry and no revenue (REV001) entry: the revenue check is applied only  *)
(* when a revenue entry exists, although calculate has treated the missing *)
(* revenue as 0.                                                           *)
(***************************************************************************)
\* the list validate was called with
ValidatedList ==
    IF fnOp = "calculate+validate" THEN fnRet ELSE fnArg

C26_PLAcceptsMissingRevenue ==
    ( /\ fnVariant = "PL"
      /\ fnOp \in {"validate", "calculate+validate"}
      /\ Occurrences(ValidatedList, "NI001") >= 1
      /\ Occurrences(ValidatedList, "REV001") = 0 ) =>
        /\ fnErr = NoError
        /\ fnOp = "calculate+validate" =>
              fnRet[Len(fnArg) + 1].value = 0 + SourceValue(fnArg, "COST001")

\* a raw list of costs only: calculate derives a gross profit of -2 from a
\* revenue of 0 and validate accepts the result
C26_Witness ==
    /\ fnVariant = "PL"
    /\ fnOp = "calculate+validate"
    /\ Occurrences(fnArg, "REV001") = 0
    /\ Occurrences(fnArg, "NI001") = 0
    /\ SourceValue(fnArg, "COST001") = -2
    /\ fnRet[Len(fnArg) + 1].accountId = "GP001"
    /\ fnRet[Len(fnArg) + 1].value = -2
    /\ fnErr = NoError

(***************************************************************************)
(* C27: in no run of generate is a 'summary item missing' failure raised:  *)
(* calculate always appends NI001 (PL), TOTAL_ASSET, TOTAL_LIAB and        *)
(* TOTAL_EQUITY (BS) and CF_BEGIN, CF_NET and CF_END (CF), so the          *)
(* missing-item branches of the three validate operations are taken only   *)
(* when validate is given a list that calculate did not produce.           *)
(***************************************************************************)
\* the summary items validate looks for
RequiredIds(v) ==
    CASE v = "PL" -> {"NI001"}
      [] v = "BS" -> {"TOTAL_ASSET", "TOTAL_LIAB", "TOTAL_EQUITY"}
      [] v = "CF" -> {"CF_BEGIN", "CF_NET", "CF_END"}

C27_NoMissingItemFailureInRuns ==
    \A r \in RunIds :
        /\ error[r].msg \notin MissingItemMessages
        /\ Returned(r, "calculate") =>
              \A id \in RequiredIds(variant[r]) :
                  Occurrences(calculatedData[r], id) >= 1

\* a CF run has called validate on a list that holds the three summary
\* items, and validate has returned
C27_Witness ==
    /\ variant[1] = "CF"
    /\ Returned(1, "validate")
    /\ Len(rawData[1]) = 1
    /\ \A id \in RequiredIds("CF") : Occurrences(calculatedData[1], id) = 1
    /\ error[1] = NoError

\* a direct call takes a missing-item branch only for validate on a list
\* that lacks a summary item, never for validate on what calculate returned
C27_MissingBranchNeedsForeignList ==
    fnErr.msg \in MissingItemMessages =>
        /\ fnOp = "validate"
        /\ \E id \in RequiredIds(fnVariant) : Occurrences(fnArg, id) = 0

(***************************************************************************)
(* C28: validate and calculate look items up by first match on accountId:  *)
(* when the raw list already holds an entry whose accountId is a derived   *)
(* one (NI001, TOTAL_ASSET, TOTAL_LIAB, TOTAL_EQUITY, CF_BEGIN, CF_NET,    *)
(* CF_END), validate judges that earlier raw entry and not the item        *)
(* calculate appended, so its verdict can differ from the verdict on the   *)
(* derived values.                                                         *)
(***************************************************************************)
\* the positions of the items of data that carry the accountId id
PositionsOf(data, id) == { i \in 1..Len(data) : data[i].accountId = id }

\* the value of the earliest item of data that carries id, 0 when none does
EarliestValue(data, id) ==
    IF PositionsOf(data, id) = {} THEN 0
    ELSE data[CHOOSE i \in PositionsOf(data, id) :
                  \A j \in PositionsOf(data, id) : i <= j].value

\* the verdict on the earliest entries of data: TRUE when they satisfy what
\* validate of v demands
EarliestEntriesPass(v, data) ==
    CASE v = "PL" ->
            /\ PositionsOf(data, "NI001") # {}
            /\ (PositionsOf(data, "REV001") = {} \/ EarliestValue(data, "REV001") > 0)
      [] v = "BS" ->
            /\ \A id \in RequiredIds("BS") : PositionsOf(data, id) # {}
            /\ WithinTolerance(EarliestValue(data, "TOTAL_ASSET")
                               + EarliestValue(data, "TOTAL_LIAB")
                               + EarliestValue(data, "TOTAL_EQUITY"))
      [] v = "CF" ->
            /\ \A id \in RequiredIds("CF") : PositionsOf(data, id) # {}
            /\ WithinTolerance(EarliestValue(data, "CF_BEGIN")
                               + EarliestValue(data, "CF_NET")
                               - EarliestValue(data, "CF_END"))

\* the verdict on the three items calculate appended to its input
DerivedValuesPass(v, calculated) ==
    CASE v = "PL" -> TRUE
      [] v = "BS" -> WithinTolerance(TotalsOf(calculated)[1] + TotalsOf(calculated)[2]
                                     + TotalsOf(calculated)[3])
      [] v = "CF" -> WithinTolerance(TotalsOf(calculated)[1] + TotalsOf(calculated)[2]
                                     - TotalsOf(calculated)[3])

C28_FirstMatchLookup ==
    /\ (fnOp \in {"validate", "calculate+validate"}) =>
          (fnErr = NoError <=> EarliestEntriesPass(fnVariant, ValidatedList))
    /\ (fnOp = "calculate+validate") =>
          \A id \in RequiredIds(fnVariant) :
              PositionsOf(fnArg, id) # {} =>
                  EarliestValue(fnRet, id) = EarliestValue(fnArg, id)
    /\ (fnOp = "calculate" /\ fnErr = NoError) =>
          LET n == Len(fnArg)
          IN  /\ fnVariant = "PL" =>
                    fnRet[n + 1].value = EarliestValue(fnArg, "REV001")
                                         + EarliestValue(fnArg, "COST001")
              /\ fnVariant = "CF" =>
                    fnRet[n + 2].value = EarliestValue(fnArg, "CFO001")
                                         + EarliestValue(fnArg, "CFI001")
                                         + EarliestValue(fnArg, "CFF001")

\* a CF raw list that already holds a CF_END row of 0.02: the items calculate
\* appends reconcile, yet validate rejects the list for the raw row
C28_Witness ==
    /\ fnVariant = "CF"
    /\ fnOp = "calculate+validate"
    /\ PositionsOf(fnArg, "CF_END") # {}
    /\ EarliestValue(fnArg, "CF_END") = 2
    /\ DerivedValuesPass("CF", fnRet)
    /\ fnErr # NoError
    /\ Len(fnErr.args) = 2
    /\ fnErr.args[2] = 2

\* a CF raw list with two CFO001 rows: calculate has used the first
C28_CalculateFirstMatchReached ==
    /\ fnVariant = "CF"
    /\ fnOp = "calculate"
    /\ Cardinality(PositionsOf(fnArg, "CFO001")) = 2
    /\ fnRet[Len(fnArg) + 2].value = 2 + (-1)

\* a BS raw list that holds balanced TOTAL_* rows: validate accepts although
\* the totals calculate derived do not balance
C28_AcceptedForRawRowsReached ==
    /\ fnVariant = "BS"
    /\ fnOp = "calculate+validate"
    /\ \A id \in RequiredIds("BS") : PositionsOf(fnArg, id) # {}
    /\ ~DerivedValuesPass("BS", fnRet)
    /\ fnErr = NoError

(***************************************************************************)
(* C29                                                                     *)
(***************************************************************************)
\* references of the reports that exist
ReportRefs == 1..Len(reports)

\* generate has been called on report i.  The flag is what records it:
\* C29_ExportFailsIffNotGenerated states that a report is created with the
\* flag down, that every generate leaves it up, and that nothing else
\* moves it.
GenerateHasRun(i) == reports[i].generated

\* C29: for any sequence of create, generate and export calls on reports
\* of the four factories, create returns a new report that is not
\* generated, export throws if and only if generate has not yet been
\* called on the report it is called on, and a report's generated flag is
\* raised by generate on that report and by nothing else, and once raised
\* never returns to false.
C29_ExportFailsIffNotGenerated ==
    /\ [](\A i \in ReportRefs : reports[i].type \in ReportTypes)
    /\ [][\A i \in 1..MaxReports :
            /\ (\E t \in ReportTypes : Create(t)) /\ i = Len(reports) + 1
                   => /\ reportCall'.report = i
                      /\ ~reportCall'.threw
                      /\ ~reports'[i].generated
            /\ Generate(i) => reports'[i].generated /\ ~reportCall'.threw
            /\ Export(i) => (reportCall'.threw <=> ~GenerateHasRun(i))
            /\ i \in ReportRefs /\ reports[i].generated
                   => reports'[i].generated
            /\ i \in ReportRefs /\ ~reports[i].generated
                   /\ reports'[i].generated
                   => Generate(i)]_vars

\* export has just thrown on a CSV report that was created after another
\* report had been generated, and that has not been generated itself
C29_Witness ==
    /\ Len(reports) >= 2
    /\ reports[1].generated
    /\ reports[2].type = "CSV"
    /\ ~reports[2].generated
    /\ reportCall = [op |-> "export", report |-> 2, threw |-> TRUE]

\* export has just returned normally on a PDF report, which is generated
C29_ExportAfterGenerateReached ==
    /\ reportCall.op = "export"
    /\ ~reportCall.threw
    /\ reports[reportCall.report].type = "PDF"
    /\ reports[reportCall.report].generated

\* the registry holds every created report under its type, in creation
\* order
C29_RegistryHoldsEveryReport ==
    \A t \in ReportTypes :
        RegistryGet(reportRegistry, t)
            = SelectSeq([i \in ReportRefs |-> i],
                        LAMBDA i : reports[i].type = t)

(***************************************************************************)
(* C30                                                                     *)
(***************************************************************************)
\* initialize has been called on the object ref refers to.  The flag is
\* what records it: C30_SingletonGuardsLookups states that an object is
\* constructed with the flag down, that every initialize leaves it up, and
\* that nothing else moves it.
InitializeHasRun(ref) == masters[ref].initialized

\* some lookup of the four is called on ref in this step
LookupStep(ref) ==
    \/ \E id \in LookupIds : GetAccountById(ref, id)
    \/ \E code \in LookupCodes : GetAccountByCode(ref, code)
    \/ \E fsType \in Variants : GetAccountsByFsType(ref, fsType)
    \/ GetAllAccounts(ref)

\* C30: for any sequence of getInstance, initialize and lookup calls,
\* every getInstance returns the same object, the only one ever
\* constructed; each of getAccountById, getAccountByCode,
\* getAccountsByFsType and getAllAccounts throws exactly when initialize
\* has not yet been called on the object; and an initialize on an
\* initialized object leaves accounts and accountsByCode as they are.
C30_SingletonGuardsLookups ==
    /\ [](/\ Len(masters) <= 1
          /\ Cardinality(masterRefs) <= 1
          /\ masterCall.op = "getInstance" => masterCall.ref = instance
          /\ masterRefs # {} => masterRefs = {instance})
    /\ [][/\ GetInstance /\ instance = 0
                 => ~masters'[instance'].initialized
          /\ GetInstance /\ instance # 0
                 => instance' = instance /\ masterCall'.ref = instance
          /\ \A ref \in masterRefs :
                /\ LookupStep(ref)
                       => (masterCall'.threw <=> ~InitializeHasRun(ref))
                /\ Initialize(ref) => masters'[ref].initialized
                /\ Initialize(ref) /\ InitializeHasRun(ref)
                       => /\ masters'[ref].accounts = masters[ref].accounts
                          /\ masters'[ref].accountsByCode
                                 = masters[ref].accountsByCode
                /\ masters[ref].initialized => masters'[ref].initialized
                /\ ~masters[ref].initialized /\ masters'[ref].initialized
                       => Initialize(ref)]_vars

\* an initialize call has just found the object initialized, with the
\* standard accounts registered under their ids and codes
C30_Witness ==
    /\ masterCall.op = "initialize"
    /\ masterCall.log = "alreadyInitialized"
    /\ masterCall.ref = instance
    /\ Len(masters[instance].accounts) = Len(StandardAccounts)
    /\ Len(masters[instance].accountsByCode) = Len(StandardAccounts)

\* a lookup has just thrown
C30_LookupThrewReached ==
    /\ masterCall.op = "getAccountsByFsType"
    /\ masterCall.threw
    /\ ~masters[masterCall.ref].initialized

\* a lookup has just returned the balance sheet accounts in sortOrder
C30_LookupReturnedReached ==
    /\ masterCall.op = "getAccountsByFsType"
    /\ masterCall.arg = "BS"
    /\ ~masterCall.threw
    /\ Len(masterCall.ret) = 14
    /\ masterCall.ret[1].id = "CURRENT_ASSETS"
    /\ masterCall.ret[2].id = "CASH"
    /\ \A i \in 1..13 :
           masterCall.ret[i].sortOrder <= masterCall.ret[i + 1].sortOrder

\* a second getInstance has just returned the object of the first
C30_SecondGetInstanceReached ==
    /\ masterCall.op = "getInstance"
    /\ masterCall.log = ""
    /\ masterCall.ref = 1

====
